---- MODULE Spec2Model ----
(***************************************************************************)
(* Model of src/src/lmql/runtime/lmql_runtime.py: the scope resolver       *)
(* LMQLInputVariableScope, the argument binder                             *)
(* LMQLQueryFunction.make_kwargs and the invocation lifecycle              *)
(* LMQLQueryFunction.__acall__.                                            *)
(*                                                                         *)
(* Python values are strings; a dict is a function whose DOMAIN is its key *)
(* set; an optional value is a record with a "kind" field.                 *)
(***************************************************************************)
EXTENDS Integers, Sequences, FiniteSets, TLC

VARIABLES
    heap,              \* the dict objects: object id -> dict
    fastLocals,        \* the defining function's local variables (function frame)
    frame,             \* the frame that calls compiled_query: [kind, f_locals, f_globals]
    scope,             \* the LMQLInputVariableScope of the query function
    last_resolve,      \* the last call of scope.resolve and its outcome
    function_context,  \* LMQLQueryFunction.function_context
    postprocessors,    \* LMQLQueryFunction.postprocessors: [none, list]
    output_writer,     \* LMQLQueryFunction.output_writer
    call,              \* the arguments of one call of make_kwargs
    bound,             \* what that call of make_kwargs produced
    inv,               \* the invocations of __acall__: invocation -> frame of the coroutine
    engines            \* the PromptInterpreter instances constructed so far

vars == <<heap, fastLocals, frame, scope, last_resolve, function_context,
          postprocessors, output_writer, call, bound, inv, engines>>

scopeVars == <<heap, fastLocals, frame, scope, last_resolve>>
bindVars == <<call, bound>>
callVars == <<inv, engines>>
fctVars == <<function_context, postprocessors, output_writer>>

-----------------------------------------------------------------------------
(* Bounds of the model.                                                    *)

MaxPositional == 2       \* longest positional argument list of a call
MaxQueryParams == 3      \* longest args_of_query list
MaxPostprocessors == 2   \* longest postprocessor list
NumInvocations == 2      \* invocations of the same query function in flight

-----------------------------------------------------------------------------
(* Python dicts.                                                           *)

EmptyDict == [k \in {} |-> "None"]

Dicts(K, V) == UNION {[D -> V] : D \in SUBSET K}

Put(d, k, v) == [x \in (DOMAIN d) \cup {k} |-> IF x = k THEN v ELSE d[x]]

Del(d, k) == [x \in (DOMAIN d) \ {k} |-> d[x]]

\* bool(v) is False
Falsy(v) == v \in {"None", "0"}

Range(s) == {s[i] : i \in DOMAIN s}

-----------------------------------------------------------------------------
(* LMQLInputVariableScope.                                                 *)

ScopeNames == {"x", "y"}
ScopeValues == {"0", "v"}
Policies == {"raise", "ignore", "None"}

ObjIds == {"L", "G", "B", "L2", "G2"}

NoScope == [defined |-> FALSE, locals |-> "L", globals |-> "G", builtins |-> "B"]
NoResolve == [name |-> "None", errors |-> "None", outcome |-> [kind |-> "none", value |-> "None"]]

ModuleFrame == [kind |-> "module", f_locals |-> "G", f_globals |-> "G"]
FunctionFrame == [kind |-> "function", f_locals |-> "L", f_globals |-> "G"]

\* The scope as it would be with copies of the frame's namespaces (dict(...)
\* of f_locals and f_globals) in place of the namespaces themselves.
LMQLInputVariableScope_copies(h, calling_frame) ==
    [scope |-> [defined |-> TRUE, locals |-> "L2", globals |-> "G2", builtins |-> "B"],
     heap |-> [h EXCEPT !["L2"] = h[calling_frame.f_locals],
                        !["G2"] = h[calling_frame.f_globals]]]

\* __init__: the scope keeps the frame's own namespace objects.
LMQLInputVariableScope(h, calling_frame) ==
    [scope |-> [defined |-> TRUE,
                locals |-> calling_frame.f_locals,
                globals |-> calling_frame.f_globals,
                builtins |-> "B"],
     heap |-> h]

\* resolve as it would be with a lookup by truthiness
\* (locals.get(name) or globals.get(name) or builtins.get(name)).
resolve_in_truthy(l, g, b, name, errors) ==
    IF name \in DOMAIN l /\ ~Falsy(l[name]) THEN [kind |-> "return", value |-> l[name]]
    ELSE IF name \in DOMAIN g /\ ~Falsy(g[name]) THEN [kind |-> "return", value |-> g[name]]
    ELSE IF name \in DOMAIN b THEN [kind |-> "return", value |-> b[name]]
    ELSE IF errors = "ignore" THEN [kind |-> "return", value |-> "None"]
    ELSE [kind |-> "TypeError", value |-> name]

\* resolve on the three namespaces l, g, b
resolve_in(l, g, b, name, errors) ==
    IF name \in DOMAIN l THEN [kind |-> "return", value |-> l[name]]
    ELSE IF name \in DOMAIN g THEN [kind |-> "return", value |-> g[name]]
    ELSE IF name \in DOMAIN b THEN [kind |-> "return", value |-> b[name]]
    ELSE IF errors = "ignore" THEN [kind |-> "return", value |-> "None"]
    ELSE [kind |-> "TypeError", value |-> name]

resolve(name, errors) ==
    resolve_in(heap[scope.locals], heap[scope.globals], heap[scope.builtins], name, errors)

\* A call of scope.resolve by some user of the scope.
resolve_call ==
    /\ scope.defined
    /\ \E name \in ScopeNames, errors \in Policies :
          last_resolve' = [name |-> name, errors |-> errors,
                           outcome |-> resolve(name, errors)]
    /\ UNCHANGED <<heap, fastLocals, frame, scope, fctVars, bindVars, callVars>>


\* compiled_query(...)(fct): inspect.stack()[1] is the caller's frame; reading
\* frame.f_locals of a function frame materialises its locals dict.
compiled_query ==
    /\ ~scope.defined
    /\ LET h == IF frame.kind = "function"
                THEN [heap EXCEPT !["L"] = fastLocals] ELSE heap
           made == LMQLInputVariableScope(h, frame)
       IN  /\ scope' = made.scope
           /\ heap' = made.heap
    /\ UNCHANGED <<fastLocals, frame, last_resolve, fctVars, bindVars, callVars>>

\* The caller binds or rebinds a module-level name after the definition.
caller_assign_global ==
    /\ scope.defined
    /\ \E n \in ScopeNames, v \in ScopeValues :
          heap' = [heap EXCEPT ![frame.f_globals] = Put(@, n, v)]
    /\ UNCHANGED <<fastLocals, frame, scope, last_resolve, fctVars, bindVars, callVars>>

\* The caller deletes a module-level name.
caller_del_global ==
    /\ scope.defined
    /\ \E n \in DOMAIN heap[frame.f_globals] :
          heap' = [heap EXCEPT ![frame.f_globals] = Del(@, n)]
    /\ UNCHANGED <<fastLocals, frame, scope, last_resolve, fctVars, bindVars, callVars>>

\* The caller binds, rebinds or deletes a local variable: at module level
\* the locals are the module dict itself, in a function they are the frame's
\* fast locals, which the f_locals dict does not follow by itself.
caller_change_local ==
    /\ scope.defined
    /\ \E n \in ScopeNames, v \in ScopeValues \cup {"del"} :
          IF frame.kind = "module"
          THEN /\ heap' = [heap EXCEPT ![frame.f_locals] =
                              IF v = "del" THEN Del(@, n) ELSE Put(@, n, v)]
               /\ UNCHANGED fastLocals
          ELSE /\ fastLocals' = IF v = "del" THEN Del(fastLocals, n)
                                ELSE Put(fastLocals, n, v)
               /\ UNCHANGED heap
    /\ UNCHANGED <<frame, scope, last_resolve, fctVars, bindVars, callVars>>

\* Something reads frame.f_locals of the defining function frame again
\* (locals(), a debugger, another inspect.stack()): the interpreter writes
\* the current fast locals into the same dict object.
frame_locals_refresh ==
    /\ scope.defined
    /\ frame.kind = "function"
    /\ heap' = [heap EXCEPT ![frame.f_locals] = fastLocals]
    /\ UNCHANGED <<fastLocals, frame, scope, last_resolve, fctVars, bindVars, callVars>>

\* Values the other components hold while only the scope is exercised.
NoContext == [attached |-> FALSE, argnames |-> <<>>, args_of_query |-> <<>>]
NoPostprocessors == [none |-> TRUE, list |-> <<>>]
NoCall == [args |-> <<>>, kwargs |-> EmptyDict]
NoError == [kind |-> "none", detail |-> "none", names |-> <<>>]
NotBound == [status |-> "pending", error |-> NoError, query_kwargs |-> EmptyDict,
             runtime_args |-> EmptyDict, attempted |-> {}]

InitScope ==
    /\ frame \in {ModuleFrame, FunctionFrame}
    /\ fastLocals \in (IF frame.kind = "function"
                       THEN Dicts(ScopeNames, ScopeValues) ELSE {EmptyDict})
    /\ \E g \in Dicts(ScopeNames, ScopeValues), b \in Dicts(ScopeNames, {"v"}) :
          heap = [o \in ObjIds |-> IF o = "G" THEN g ELSE IF o = "B" THEN b ELSE EmptyDict]
    /\ scope = NoScope
    /\ last_resolve = NoResolve
    /\ function_context = NoContext
    /\ postprocessors = NoPostprocessors
    /\ output_writer = "None"
    /\ call = NoCall
    /\ bound = NotBound
    /\ inv = <<>>
    /\ engines = <<>>

NextScope ==
    \/ compiled_query
    \/ resolve_call
    \/ caller_assign_global
    \/ caller_del_global
    \/ caller_change_local
    \/ frame_locals_refresh

SpecScope == InitScope /\ [][NextScope]_vars

-----------------------------------------------------------------------------
(* LMQLQueryFunction.make_kwargs.                                          *)

\* A parameter of an inspect.Signature (positional-or-keyword).
Param(n) == [name |-> n, has_default |-> FALSE, default |-> "None"]
ParamD(n, d) == [name |-> n, has_default |-> TRUE, default |-> d]

\* signature.parameters.keys()
ParameterNames(signature) == {signature[i].name : i \in DOMAIN signature}

TypeError(detail, names) == [kind |-> "TypeError", detail |-> detail, names |-> names]

Restrict(d, K) == [k \in (DOMAIN d) \cap K |-> d[k]]

\* d1 updated with d2
Update(d1, d2) ==
    [k \in (DOMAIN d1) \cup (DOMAIN d2) |-> IF k \in DOMAIN d2 THEN d2[k] ELSE d1[k]]

\* All enumerations of the set S, each element once
Perms(S) ==
    {s \in [1..Cardinality(S) -> S] : \A i, j \in 1..Cardinality(S) : s[i] = s[j] => i = j}

\* str order of the names in use
NameOrder == <<"a", "b", "output_writer", "self", "t", "x", "y">>
Rank(n) == CHOOSE i \in DOMAIN NameOrder : NameOrder[i] = n

RECURSIVE Insert(_, _)
Insert(s, n) ==
    IF s = <<>> THEN <<n>>
    ELSE IF Rank(n) < Rank(Head(s)) THEN <<n>> \o s
    ELSE <<Head(s)>> \o Insert(Tail(s), n)

\* sorted(names)
RECURSIVE sorted(_)
sorted(names) ==
    IF names = <<>> THEN <<>> ELSE Insert(sorted(Tail(names)), Head(names))

\* line 102 without its second condition
initial_runtime_args_signature_only(signature, args_of_query, kwargs) ==
    Restrict(kwargs, (DOMAIN kwargs) \ ParameterNames(signature))

\* line 102
initial_runtime_args(signature, args_of_query, kwargs) ==
    Restrict(kwargs, ((DOMAIN kwargs) \ ParameterNames(signature)) \ Range(args_of_query))

\* line 103
initial_query_kwargs(signature, kwargs) ==
    Restrict(kwargs, ParameterNames(signature))

\* lines 105-110
default_values(signature, args_of_query) ==
    LET withDefault == {i \in DOMAIN signature :
                           signature[i].has_default
                           /\ signature[i].name \in Range(args_of_query)}
    IN  [n \in {signature[i].name : i \in withDefault} |->
            signature[CHOOSE i \in withDefault : signature[i].name = n].default]

\* What inspect.Signature.bind finds at position i: positional arguments fill
\* the parameters from the left, the keywords fill the rest.
BindErrorAt(signature, args, kw, i) ==
    IF i <= Len(args)
    THEN IF i > Len(signature) THEN TypeError("too_many_positional", <<>>)
         ELSE IF signature[i].name \in DOMAIN kw
              THEN TypeError("multiple_values", <<signature[i].name>>)
              ELSE NoError
    ELSE IF signature[i].name \notin DOMAIN kw /\ ~signature[i].has_default
         THEN TypeError("missing", <<signature[i].name>>)
         ELSE NoError

\* line 114: signature.bind(*args, **query_kwargs); arguments holds what the
\* caller bound, never a default. lines 115-120 re-raise the error with a
\* longer message.
signature_bind(signature, args, kw) ==
    LET last == IF Len(args) > Len(signature) THEN Len(signature) + 1 ELSE Len(signature)
        bad == {i \in 1..last : BindErrorAt(signature, args, kw, i).kind # "none"}
        first == CHOOSE i \in bad : \A j \in bad : i <= j
        byPosition == {i \in DOMAIN signature : i <= Len(args)}
        byKeyword == {i \in DOMAIN signature : i > Len(args) /\ signature[i].name \in DOMAIN kw}
        index(n) == CHOOSE i \in DOMAIN signature : signature[i].name = n
    IN  IF bad # {}
        THEN [error |-> BindErrorAt(signature, args, kw, first), arguments |-> EmptyDict]
        ELSE [error |-> NoError,
              arguments |->
                  [n \in {signature[i].name : i \in byPosition \cup byKeyword} |->
                      IF index(n) \in byPosition THEN args[index(n)] ELSE kw[n]]]

\* lines 122-130: nothing bound, the keywords are used directly
fallback_query_args(arguments, args_of_query, kwargs) ==
    IF DOMAIN arguments = {} THEN Restrict(kwargs, Range(args_of_query)) ELSE EmptyDict

fallback_runtime_args(arguments, args_of_query, kwargs) ==
    IF DOMAIN arguments = {}
    THEN Restrict(kwargs, (DOMAIN kwargs) \ Range(args_of_query)) ELSE EmptyDict

\* lines 134-137: the bound arguments that are query arguments
bound_query_args(compiled_query_args, arguments, args_of_query) ==
    Update(compiled_query_args, Restrict(arguments, Range(args_of_query)))

\* lines 133-137: the names left in captured_variables
captured_variables(arguments, args_of_query) ==
    Range(args_of_query) \ (DOMAIN arguments)

\* lines 142-147 leaving the loop at the first failure
RECURSIVE resolve_captured_stop_at_first(_, _)
resolve_captured_stop_at_first(order, st) ==
    IF order = <<>> \/ st.failed_to_resolve # <<>> THEN st
    ELSE LET v == Head(order)
             r == resolve(v, "raise")
         IN  IF v \in DOMAIN st.compiled_query_args
             THEN resolve_captured_stop_at_first(Tail(order), st)
             ELSE resolve_captured_stop_at_first(Tail(order),
                    [compiled_query_args |->
                        IF r.kind = "return" THEN Put(st.compiled_query_args, v, r.value)
                        ELSE st.compiled_query_args,
                     failed_to_resolve |->
                        IF r.kind = "return" THEN st.failed_to_resolve
                        ELSE Append(st.failed_to_resolve, v),
                     attempted |-> st.attempted \cup {v}])

\* lines 139-147: the loop over captured_variables, in the order the set
\* happens to iterate
RECURSIVE resolve_captured(_, _)
resolve_captured(order, st) ==
    IF order = <<>> THEN st
    ELSE LET v == Head(order)
             r == resolve(v, "raise")
         IN  IF v \in DOMAIN st.compiled_query_args
             THEN resolve_captured(Tail(order), st)
             ELSE resolve_captured(Tail(order),
                    [compiled_query_args |->
                        IF r.kind = "return" THEN Put(st.compiled_query_args, v, r.value)
                        ELSE st.compiled_query_args,
                     failed_to_resolve |->
                        IF r.kind = "return" THEN st.failed_to_resolve
                        ELSE Append(st.failed_to_resolve, v),
                     attempted |-> st.attempted \cup {v}])

\* lines 149-152
resolution_error(failed_to_resolve) ==
    IF Len(failed_to_resolve) = 1 THEN TypeError("unresolved_variable", failed_to_resolve)
    ELSE IF Len(failed_to_resolve) > 0
         THEN TypeError("unresolved_variables", sorted(failed_to_resolve))
         ELSE NoError

Raised(error, attempted) ==
    [status |-> "raised", error |-> error, query_kwargs |-> EmptyDict,
     runtime_args |-> EmptyDict, attempted |-> attempted]

\* make_kwargs(*args, **kwargs); order is the iteration order of the set
\* captured_variables.
make_kwargs(fc, args, kwargs, order) ==
    IF ~fc.attached
    THEN Raised([kind |-> "AssertionError", detail |-> "no_context", names |-> <<>>], {})
    ELSE
    LET signature == fc.argnames
        args_of_query == fc.args_of_query
        runtime_args == initial_runtime_args(signature, args_of_query, kwargs)
        query_kwargs == initial_query_kwargs(signature, kwargs)
        defaults == default_values(signature, args_of_query)
        b == signature_bind(signature, args, query_kwargs)
        dynamic == Update(defaults, fallback_query_args(b.arguments, args_of_query, kwargs))
        runtime == Update(runtime_args,
                          fallback_runtime_args(b.arguments, args_of_query, kwargs))
        compiled == bound_query_args(dynamic, b.arguments, args_of_query)
        captured == captured_variables(b.arguments, args_of_query)
        st == resolve_captured(SelectSeq(order, LAMBDA v : v \in captured),
                               [compiled_query_args |-> compiled,
                                failed_to_resolve |-> <<>>,
                                attempted |-> {}])
    IN  IF b.error.kind # "none" THEN Raised(b.error, {})
        ELSE IF st.failed_to_resolve # <<>>
             THEN Raised(resolution_error(st.failed_to_resolve), st.attempted)
             ELSE [status |-> "ok", error |-> NoError,
                   query_kwargs |-> st.compiled_query_args,
                   runtime_args |-> runtime, attempted |-> st.attempted]

\* The calls and query functions make_kwargs is exercised on.
SignatureNames == {"a", "b"}
QueryNames == {"a", "b", "x", "y"}
KeywordNames == {"a", "b", "t", "x", "y"}

Signatures ==
    { <<>>,
      <<Param("a")>>,
      <<Param("a"), Param("b")>>,
      <<Param("a"), ParamD("b", "2")>>,
      <<ParamD("a", "1"), ParamD("b", "2")>> }

QueryParamLists ==
    UNION {Perms(S) : S \in {T \in SUBSET QueryNames : Cardinality(T) <= MaxQueryParams}}

FunctionContexts ==
    {[attached |-> TRUE, argnames |-> sig, args_of_query |-> q] :
        sig \in Signatures, q \in QueryParamLists}

\* The i-th positional argument is "p<i>", the keyword argument n is "k_<n>".
PositionalArgs == {[i \in 1..n |-> "p" \o ToString(i)] : n \in 0..MaxPositional}
KeywordArgs == {[n \in S |-> "k_" \o n] : S \in SUBSET KeywordNames}

\* A scope defined at module level whose globals are g.
ModuleScope(g) ==
    LMQLInputVariableScope(
        [o \in ObjIds |-> IF o = "G" THEN g ELSE EmptyDict], ModuleFrame)

InitBind ==
    /\ function_context \in FunctionContexts \cup {NoContext}
    /\ frame = ModuleFrame
    /\ fastLocals = EmptyDict
    /\ \E g \in Dicts({"x", "y"}, {"v"}) :
          /\ heap = ModuleScope(g).heap
          /\ scope = ModuleScope(g).scope
    /\ last_resolve = NoResolve
    /\ postprocessors = NoPostprocessors
    /\ output_writer = "None"
    /\ call \in [args : PositionalArgs, kwargs : KeywordArgs]
    /\ bound = NotBound
    /\ inv = <<>>
    /\ engines = <<>>

\* One call of make_kwargs.
make_kwargs_call ==
    /\ bound.status = "pending"
    /\ \E order \in Perms(Range(function_context.args_of_query)) :
          bound' = make_kwargs(function_context, call.args, call.kwargs, order)
    /\ UNCHANGED <<scopeVars, fctVars, call, callVars>>

NextBind == make_kwargs_call

SpecBind == InitBind /\ [][NextBind]_vars

-----------------------------------------------------------------------------
(* LMQLQueryFunction.__acall__.                                            *)

Invocations == 1..NumInvocations

Idle == [pc |-> "idle", args |-> <<>>, kwargs |-> EmptyDict, error |-> NoError,
         interpreter |-> 0, stage |-> 0, results |-> <<>>, applied |-> <<>>,
         returned |-> <<>>]

\* A PromptInterpreter nobody has used yet.
NewEngine(i) ==
    [created_by |-> i, configured_by |-> <<>>, extra_args |-> EmptyDict,
     run_by |-> <<>>, run_kwargs |-> EmptyDict, stats_by |-> <<>>, closed_by |-> <<>>]

\* One interpreter kept on the query function and used by every invocation.
PromptInterpreter_shared(es, i) ==
    IF es = <<>> THEN [engines |-> <<NewEngine(i)>>, id |-> 1]
    ELSE [engines |-> es, id |-> 1]

\* line 164: PromptInterpreter(force_model=self.model), a new instance
PromptInterpreter(es, i) ==
    [engines |-> Append(es, NewEngine(i)), id |-> Len(es) + 1]

\* line 168: interpreter.set_extra_args(**runtime_args)
set_extra_args(es, e, i, runtime_args) ==
    [es EXCEPT ![e].configured_by = Append(@, i), ![e].extra_args = runtime_args]

\* line 175: interpreter.run(self.fct, **query_kwargs) is called
run(es, e, i, query_kwargs) ==
    [es EXCEPT ![e].run_by = Append(@, i), ![e].run_kwargs = query_kwargs]

\* lines 185-186: interpreter.print_stats(); interpreter.dcmodel.close()
print_stats_and_close(es, e, i) ==
    [es EXCEPT ![e].stats_by = Append(@, i), ![e].closed_by = Append(@, i)]

\* lines 166-167
with_output_writer(runtime_args, writer) ==
    IF writer # "None" THEN Put(runtime_args, "output_writer", writer) ELSE runtime_args

\* lines 171-172
rename_self(query_kwargs) ==
    IF "self" \in DOMAIN query_kwargs
    THEN Put(Del(query_kwargs, "self"), "__self__", query_kwargs["self"])
    ELSE query_kwargs

\* lines 163-175 with the interpreter constructed before the arguments are bound
acall_begin_engine_first(es, i, args, kwargs, mk, writer) ==
    LET made == PromptInterpreter(es, i)
        e == made.id
    IN  IF mk.status = "raised"
        THEN [engines |-> made.engines,
              frame |-> [Idle EXCEPT !.pc = "raised", !.args = args, !.kwargs = kwargs,
                                     !.error = mk.error, !.interpreter = e]]
        ELSE [engines |-> run(set_extra_args(made.engines, e, i,
                                             with_output_writer(mk.runtime_args, writer)),
                              e, i, rename_self(mk.query_kwargs)),
              frame |-> [Idle EXCEPT !.pc = "awaiting_run", !.args = args,
                                     !.kwargs = kwargs, !.interpreter = e]]

\* lines 163-175: from the call to the first await; mk is what make_kwargs
\* gave. An error of make_kwargs leaves __acall__ at line 163.
acall_begin(es, i, args, kwargs, mk, writer) ==
    IF mk.status = "raised"
    THEN [engines |-> es,
          frame |-> [Idle EXCEPT !.pc = "raised", !.args = args, !.kwargs = kwargs,
                                 !.error = mk.error]]
    ELSE LET made == PromptInterpreter(es, i)
             e == made.id
         IN  [engines |-> run(set_extra_args(made.engines, e, i,
                                             with_output_writer(mk.runtime_args, writer)),
                              e, i, rename_self(mk.query_kwargs)),
              frame |-> [Idle EXCEPT !.pc = "awaiting_run", !.args = args,
                                     !.kwargs = kwargs, !.interpreter = e]]

\* lines 177-183 with the declared postprocessors ahead of the distribution step
pipeline_distribution_last(pp) ==
    (IF pp.none THEN <<>> ELSE pp.list) \o <<"distribution">>

\* lines 177-183: the stages the engine's result goes through, in order
pipeline(pp) ==
    <<"distribution">> \o (IF pp.none THEN <<>> ELSE pp.list)

\* What a stage makes of the result it is given.
process(stage, results) == Append(results, stage)

EngineFailure == [kind |-> "EngineFailure", detail |-> "opaque", names |-> <<>>]

\* The frame of invocation i, at the await of stage k, or finished after the
\* last stage (lines 185-188).
Continue(f, k, results) ==
    IF k <= Len(pipeline(postprocessors))
    THEN [f EXCEPT !.pc = "awaiting_stage", !.stage = k, !.results = results,
                   !.applied = Append(@, [stage |-> pipeline(postprocessors)[k],
                                          input |-> results])]
    ELSE [f EXCEPT !.pc = "returned", !.stage = 0, !.results = results,
                   !.returned = results]

\* The query function is called: make_kwargs, the interpreter, up to the
\* await of interpreter.run.
acall(i) ==
    /\ inv[i].pc = "idle"
    /\ \E c \in [args : PositionalArgs, kwargs : KeywordArgs],
          order \in Perms(Range(function_context.args_of_query)) :
          /\ Len(c.args) <= 1
          /\ DOMAIN c.kwargs \subseteq {"t"}
          /\ LET mk == make_kwargs(function_context, c.args, c.kwargs, order)
                 begun == acall_begin(engines, i, c.args, c.kwargs, mk, output_writer)
             IN  /\ inv' = [inv EXCEPT ![i] = begun.frame]
                 /\ engines' = begun.engines
    /\ UNCHANGED <<scopeVars, fctVars, bindVars>>

\* interpreter.run returns its result (line 175); the distribution
\* postprocessor is constructed and awaited (line 178).
run_returns(i) ==
    /\ inv[i].pc = "awaiting_run"
    /\ inv' = [inv EXCEPT ![i] = Continue(@, 1, <<"run">>)]
    /\ UNCHANGED <<scopeVars, fctVars, bindVars, engines>>

\* interpreter.run raises: the exception leaves __acall__ at line 175.
run_raises(i) ==
    /\ inv[i].pc = "awaiting_run"
    /\ inv' = [inv EXCEPT ![i].pc = "raised", ![i].error = EngineFailure]
    /\ UNCHANGED <<scopeVars, fctVars, bindVars, engines>>

\* The awaited stage returns (lines 178, 183): the next stage is awaited, or
\* after the last one the statistics are printed, the engine is closed and
\* the results are returned (lines 185-188).
stage_returns(i) ==
    /\ inv[i].pc = "awaiting_stage"
    /\ LET k == inv[i].stage
           results == process(pipeline(postprocessors)[k], inv[i].results)
           f == Continue(inv[i], k + 1, results)
       IN  /\ inv' = [inv EXCEPT ![i] = f]
           /\ engines' = IF f.pc = "returned"
                         THEN print_stats_and_close(engines, inv[i].interpreter, i)
                         ELSE engines
    /\ UNCHANGED <<scopeVars, fctVars, bindVars>>

\* The awaited stage raises: the exception leaves __acall__ at that line.
stage_raises(i) ==
    /\ inv[i].pc = "awaiting_stage"
    /\ inv' = [inv EXCEPT ![i].pc = "raised", ![i].error = EngineFailure]
    /\ UNCHANGED <<scopeVars, fctVars, bindVars, engines>>

PostprocessorLists ==
    {[none |-> FALSE, list |-> [k \in 1..n |-> "P" \o ToString(k)]] :
        n \in 0..MaxPostprocessors}

Init ==
    /\ function_context \in
          {NoContext,
           [attached |-> TRUE, argnames |-> <<Param("a"), ParamD("b", "2")>>,
            args_of_query |-> <<"a", "b", "x">>],
           [attached |-> TRUE, argnames |-> <<Param("self")>>,
            args_of_query |-> <<"self", "x">>]}
    /\ frame = ModuleFrame
    /\ fastLocals = EmptyDict
    /\ \E g \in Dicts({"x"}, {"v"}) :
          /\ heap = ModuleScope(g).heap
          /\ scope = ModuleScope(g).scope
    /\ last_resolve = NoResolve
    /\ postprocessors \in PostprocessorLists \cup {NoPostprocessors}
    /\ output_writer \in {"None", "writer"}
    /\ call = NoCall
    /\ bound = NotBound
    /\ inv = [i \in Invocations |-> Idle]
    /\ engines = <<>>

Next ==
    \E i \in Invocations :
        \/ acall(i)
        \/ run_returns(i)
        \/ run_raises(i)
        \/ stage_returns(i)
        \/ stage_raises(i)

Spec == Init /\ [][Next]_vars

-----------------------------------------------------------------------------
(* Properties of the scope resolver.                                       *)

Return(v) == [kind |-> "return", value |-> v]

\* C6: resolve consults the local, then the global, then the builtin
\* namespace and returns the value of the first one that has the name as a
\* key, whatever the later namespaces hold and however falsy the value is.
C6_TierPrecedence ==
    scope.defined =>
        \A n \in ScopeNames, e \in Policies :
            LET l == heap[scope.locals]
                g == heap[scope.globals]
                b == heap[scope.builtins]
            IN  /\ n \in DOMAIN l => resolve(n, e) = Return(l[n])
                /\ (n \notin DOMAIN l /\ n \in DOMAIN g) => resolve(n, e) = Return(g[n])
                /\ (n \notin DOMAIN l /\ n \notin DOMAIN g /\ n \in DOMAIN b)
                      => resolve(n, e) = Return(b[n])

\* A resolution returned a falsy local value although the global and the
\* builtin namespace hold truthy values under the same name.
C6_Witness ==
    /\ scope.defined
    /\ frame.kind = "function"
    /\ last_resolve.name = "x"
    /\ "x" \in DOMAIN heap[scope.locals] /\ heap[scope.locals]["x"] = "0"
    /\ "x" \in DOMAIN heap[scope.globals] /\ heap[scope.globals]["x"] = "v"
    /\ "x" \in DOMAIN heap[scope.builtins]
    /\ last_resolve.outcome = Return("0")

-----------------------------------------------------------------------------
(* Properties of make_kwargs, over one call: function_context, call, bound. *)

TheSignature == function_context.argnames
FormalNames == ParameterNames(TheSignature)
QueryParamNames == Range(function_context.args_of_query)
IndexOf(n) == CHOOSE i \in DOMAIN TheSignature : TheSignature[i].name = n

ByPosition(n) == n \in FormalNames /\ IndexOf(n) <= Len(call.args)
ByKeyword(n) == n \in DOMAIN call.kwargs
Supplied(n) == ByPosition(n) \/ ByKeyword(n)
CallerValue(n) == IF ByPosition(n) THEN call.args[IndexOf(n)] ELSE call.kwargs[n]
Defaulted(n) == n \in FormalNames /\ TheSignature[IndexOf(n)].has_default
DefaultOf(n) == TheSignature[IndexOf(n)].default

\* Some positional or keyword argument binds to the signature.
SomethingBinds == \E n \in FormalNames : Supplied(n)

Resolvable(n) == resolve(n, "raise").kind = "return"
BindSucceeded == bound.status = "ok"

\* C3: on a successful bind every query parameter has the caller's value if
\* the caller supplied one, else its declared default (and the resolver is
\* not consulted), and it takes the resolver's value only if the caller
\* supplied none and it declares no default.
C3_Precedence ==
    BindSucceeded =>
        \A q \in QueryParamNames :
            /\ q \in DOMAIN bound.query_kwargs
            /\ Supplied(q) => bound.query_kwargs[q] = CallerValue(q)
            /\ (~Supplied(q) /\ Defaulted(q)) =>
                  /\ bound.query_kwargs[q] = DefaultOf(q)
                  /\ q \notin bound.attempted
            /\ q \in bound.attempted => (~Supplied(q) /\ ~Defaulted(q))
            /\ (~Supplied(q) /\ ~Defaulted(q)) =>
                  /\ q \in bound.attempted
                  /\ bound.query_kwargs[q] = resolve(q, "raise").value

\* The same precedence for the query parameters that are parameters of the
\* signature, with the resolver's value for the other ones when the caller
\* passed no keyword of that name.
C3_PrecedenceOfFormals ==
    BindSucceeded =>
        \A q \in QueryParamNames :
            /\ q \in DOMAIN bound.query_kwargs
            /\ (q \in FormalNames /\ Supplied(q)) => bound.query_kwargs[q] = CallerValue(q)
            /\ (~Supplied(q) /\ Defaulted(q)) =>
                  /\ bound.query_kwargs[q] = DefaultOf(q)
                  /\ q \notin bound.attempted
            /\ q \in bound.attempted => (q \notin FormalNames \/ ~Supplied(q)) /\ ~Defaulted(q)
            /\ (~Supplied(q) /\ ~Defaulted(q)) =>
                  /\ q \in bound.attempted
                  /\ bound.query_kwargs[q] = resolve(q, "raise").value

\* Signature (a, b=2), query parameters a, b, x, called with ("p1"): a has
\* the caller's value, b its default, x the value of the scope.
C3_Example ==
    /\ BindSucceeded
    /\ TheSignature = <<Param("a"), ParamD("b", "2")>>
    /\ QueryParamNames = {"a", "b", "x"}
    /\ call.args = <<"p1">> /\ call.kwargs = EmptyDict
    /\ bound.query_kwargs = [a |-> "p1", b |-> "2", x |-> "v"]

\* The names make_kwargs has to take from the scope: the query parameters
\* that no argument bound, that have no default and that the fallback of
\* lines 122-130 did not take from the keywords.
ToResolve ==
    {q \in QueryParamNames :
        /\ ~(q \in FormalNames /\ Supplied(q))
        /\ ~Defaulted(q)
        /\ ~(~SomethingBinds /\ ByKeyword(q))}

Unresolvable == {q \in ToResolve : ~Resolvable(q)}

ReachedResolution ==
    /\ bound.status # "pending"
    /\ bound.error.detail \notin {"no_context", "missing", "too_many_positional",
                                  "multiple_values"}

IsSortedEnumeration(names, S) ==
    /\ Len(names) = Cardinality(S)
    /\ Range(names) = S
    /\ \A i, j \in DOMAIN names : i < j => Rank(names[i]) < Rank(names[j])

\* C4: every captured variable is attempted, also after a failure, and the
\* failures come in one error: the one name if one failed, all the names in
\* lexical order if several failed; without a failure the bind succeeds.
C4_FailuresAccumulated ==
    ReachedResolution =>
        /\ bound.attempted = ToResolve
        /\ Unresolvable = {} => BindSucceeded
        /\ Cardinality(Unresolvable) = 1 =>
              /\ bound.status = "raised"
              /\ bound.error.detail = "unresolved_variable"
              /\ Range(bound.error.names) = Unresolvable
              /\ Len(bound.error.names) = 1
        /\ Cardinality(Unresolvable) >= 2 =>
              /\ bound.status = "raised"
              /\ bound.error.detail = "unresolved_variables"
              /\ IsSortedEnumeration(bound.error.names, Unresolvable)

\* Two names failed, declared in the order y, x, and the error lists x, y.
C4_Witness ==
    /\ bound.status = "raised"
    /\ function_context.args_of_query = <<"y", "x">>
    /\ bound.attempted = {"x", "y"}
    /\ bound.error.names = <<"x", "y">>

\* C5: on a successful bind a keyword that is neither a parameter of the
\* signature nor a query parameter is in runtime_args with the caller's
\* value and not in query_kwargs, and the two key sets are disjoint.
C5_RuntimeKeywords ==
    BindSucceeded =>
        /\ \A k \in DOMAIN call.kwargs :
              (k \notin FormalNames /\ k \notin QueryParamNames) =>
                  /\ k \in DOMAIN bound.runtime_args
                  /\ bound.runtime_args[k] = call.kwargs[k]
                  /\ k \notin DOMAIN bound.query_kwargs
        /\ (DOMAIN bound.query_kwargs) \cap (DOMAIN bound.runtime_args) = {}

\* A successful bind on the fallback path with a runtime keyword and a query
\* keyword.
C5_Witness ==
    /\ BindSucceeded
    /\ ~SomethingBinds
    /\ DOMAIN call.kwargs = {"t", "x"}
    /\ "x" \in QueryParamNames
    /\ bound.runtime_args = [t |-> "k_t"]
    /\ "x" \in DOMAIN bound.query_kwargs

\* C10: on a successful bind every keyword of the caller is, with the
\* caller's value, in exactly one of query_kwargs and runtime_args; a keyword
\* that is a query parameter is in query_kwargs.
C10_NoKeywordLost ==
    BindSucceeded =>
        \A k \in DOMAIN call.kwargs :
            LET inQuery == k \in DOMAIN bound.query_kwargs
                              /\ bound.query_kwargs[k] = call.kwargs[k]
                inRuntime == k \in DOMAIN bound.runtime_args
                                /\ bound.runtime_args[k] = call.kwargs[k]
            IN  /\ inQuery \/ inRuntime
                /\ ~(inQuery /\ inRuntime)
                /\ k \in QueryParamNames => inQuery

-----------------------------------------------------------------------------
(* Properties of __acall__, over the invocations and the engines.          *)

Finished(i) == inv[i].pc \in {"returned", "raised"}
BindFailed(i) == inv[i].pc = "raised" /\ inv[i].error.kind \in {"AssertionError", "TypeError"}
BindSucceededIn(i) == inv[i].pc # "idle" /\ ~BindFailed(i)
EnginesOf(i) == {e \in DOMAIN engines : engines[e].created_by = i}
Count(s, x) == Cardinality({k \in DOMAIN s : s[k] = x})

\* C1: an invocation that constructed an engine has closed it exactly once
\* when it returns or raises, also when run or a postprocessing stage failed.
C1_ClosedOnEveryExit ==
    \A i \in Invocations :
        (Finished(i) /\ EnginesOf(i) # {}) =>
            \A e \in EnginesOf(i) : Len(engines[e].closed_by) = 1

\* C2: an invocation that failed in make_kwargs constructed no engine, gave
\* no runtime arguments to an engine and called run on none.
C2_NoEngineOnBindFailure ==
    \A i \in Invocations :
        BindFailed(i) =>
            /\ inv[i].interpreter = 0
            /\ \A e \in DOMAIN engines :
                  /\ engines[e].created_by # i
                  /\ i \notin Range(engines[e].configured_by)
                  /\ i \notin Range(engines[e].run_by)

\* One invocation failed on an unresolved variable and another on a missing
\* argument.
C2_Witness ==
    /\ inv[1].pc = "raised" /\ inv[1].error.detail = "unresolved_variable"
    /\ inv[2].pc = "raised" /\ inv[2].error.detail = "missing"
    /\ engines = <<>>

Declared == IF postprocessors.none THEN <<>> ELSE postprocessors.list

\* C8: once run has succeeded the distribution step is applied once, to the
\* engine's result and before every declared postprocessor; the declared
\* postprocessors follow in their declared order, each on the result of the
\* stage before it; the value returned is the result of the last stage.
C8_SequentialPipeline ==
    \A i \in Invocations :
        LET a == inv[i].applied
            expected == <<"distribution">> \o Declared
        IN  /\ Len(a) <= Len(expected)
            /\ \A k \in DOMAIN a : a[k].stage = expected[k]
            /\ \A k \in DOMAIN a :
                  a[k].input = IF k = 1 THEN <<"run">>
                               ELSE Append(a[k - 1].input, a[k - 1].stage)
            /\ inv[i].pc = "awaiting_stage" => Len(a) = inv[i].stage
            /\ inv[i].pc = "returned" =>
                  /\ Len(a) = Len(expected)
                  /\ Count([k \in DOMAIN a |-> a[k].stage], "distribution") = 1
                  /\ inv[i].returned = Append(a[Len(a)].input, a[Len(a)].stage)
                  /\ inv[i].returned = <<"run">> \o expected

\* An invocation returned the result of two declared postprocessors.
C8_Witness ==
    /\ inv[1].pc = "returned"
    /\ inv[1].returned = <<"run", "distribution", "P1", "P2">>

C9_Ownership ==
    /\ \A i \in Invocations :
          BindSucceededIn(i) =>
              /\ EnginesOf(i) = {inv[i].interpreter}
              /\ inv[i].interpreter # 0
    /\ \A e \in DOMAIN engines :
          /\ Range(engines[e].configured_by) \subseteq {engines[e].created_by}
          /\ Range(engines[e].run_by) \subseteq {engines[e].created_by}
          /\ Range(engines[e].stats_by) \subseteq {engines[e].created_by}
          /\ Range(engines[e].closed_by) \subseteq {engines[e].created_by}
    /\ \A i, j \in Invocations :
          (i # j /\ BindSucceededIn(i) /\ BindSucceededIn(j)) =>
              inv[i].interpreter # inv[j].interpreter

C9_ReturnedStays ==
    \A i \in Invocations :
        inv[i].pc = "returned" =>
            /\ inv'[i].pc = "returned"
            /\ inv'[i].returned = inv[i].returned

\* C9: in every interleaving each invocation that binds constructs one
\* engine of its own, no engine is configured, run or closed by another
\* invocation than the one that created it, and no step, the close of
\* another invocation's engine included, changes a result already returned.
C9_IndependentInvocations == []C9_Ownership /\ [][C9_ReturnedStays]_vars

\* The invocation called second returned first, the other one returned and
\* closed its engine afterwards.
C9_Witness ==
    /\ inv[1].pc = "returned" /\ inv[2].pc = "returned"
    /\ inv[1].interpreter = 2 /\ inv[2].interpreter = 1
    /\ engines[1].closed_by = <<2>> /\ engines[2].closed_by = <<1>>

=============================================================================
